---- MODULE Spec2Model ----
(***************************************************************************)
(* Gramasetu: the voice-assistant widget (src/va.js) and the chatbot       *)
(* endpoints of the Express backend (src/unnamed/part_000).                *)
(*                                                                         *)
(* The widget is a single-threaded, event-driven program: every action     *)
(* below is one handler (a click, a recognition event, an utterance event, *)
(* a timer, the continuation of an await) run to completion.  The handlers *)
(* are written as functions from the widget's state (the record St) to the *)
(* state they leave, so that a handler calling stopListening() and then    *)
(* stopSpeaking() is the composition of the two.                           *)
(***************************************************************************)
EXTENDS Integers, Sequences, FiniteSets

\* ------------------------------------------------------------------ bounds
MaxSessions == 1   \* SpeechRecognition objects alive at once
MaxCalls == 1      \* sendMessageToAPI calls whose record is kept
MaxMessages == 2   \* bubbles in the transcript view
MaxTimers == 1     \* pending setTimeout(startListening, 200)
MaxLateEnds == 1   \* end events still owed to cancelled utterances
MaxReqs == 2       \* /api/cb-chat requests in flight at once
MaxPushed == 11    \* entries ever pushed to the chatbot context
MaxLen == 2        \* code points in a text given to the language detector
MaxVoices == 2     \* voices speechSynthesis.getVoices() lists
MaxOtps == 2       \* OTPs /api/forgot-password issues
MaxVerifies == 2   \* /api/verify-otp requests in flight at once

\* ------------------------------------------------------- program constants
CtxCap == 10           \* cbChatContext.slice(-10)

KannadaFirst == 3200   \* U+0C80
KannadaLast == 3327    \* U+0CFF

Null == 0
Locales == {"en", "kn"}
SessIds == 1..MaxSessions
CallIds == 1..MaxCalls

\* Texts are sequences of code points.  104 is "h", 3240 is U+0CA8, 32 a space.
RawTranscripts == {<<32>>, <<104>>, <<3240>>}
\* data.reply: absent (<<>>), Latin, Kannada.
Replies == {<<>>, <<104>>, <<3240>>}
\* Texts for the language detector: a space, "h", and the code points at and
\* next to the two ends of the Kannada block (U+0C7F, U+0C80, U+0CFF, U+0D00).
TextAlphabet == {32, 104, 3199, 3200, 3327, 3328}
Texts == UNION {[1..n -> TextAlphabet] : n \in 0..MaxLen}
NoAnswerText == <<3221, 8212, 3209>>     \* the "no answer" placeholder
ConnErrorText == <<9888, 3256>>          \* the non-2xx bubble
ApiErrorText == <<9888, 3238>>           \* the catch bubble
RecErrorText == <<3221, 44, 3253>>       \* the recognition.onerror bubble

\* femaleHints, as code points
femaleHints ==
  <<<<102, 101, 109, 97, 108, 101>>,
    <<122, 105, 114, 97>>,
    <<97, 110, 121, 97>>,
    <<109, 101, 101, 114, 97>>,
    <<115, 97, 110, 103, 101, 101, 116>>,
    <<115, 97, 110, 103, 101, 101, 116, 104, 97>>,
    <<103, 111, 111, 103, 108, 101>>,
    <<97, 109, 121>>,
    <<115, 97, 109, 97, 110, 116, 104, 97>>,
    <<97, 108, 108, 111, 121>>>>

\* The voices a platform may offer ([lang, name] as code points):
\* "kn-IN" Meera, "kn-IN" Ravi, "en-IN" Zira, "EN-us" Bob, "hi-IN" Google,
\* and a voice without a lang.
VoicePool ==
  {[lang |-> <<107, 110, 45, 73, 78>>, name |-> <<77, 101, 101, 114, 97>>],
   [lang |-> <<107, 110, 45, 73, 78>>, name |-> <<82, 97, 118, 105>>],
   [lang |-> <<101, 110, 45, 73, 78>>, name |-> <<90, 105, 114, 97>>],
   [lang |-> <<69, 78, 45, 117, 115>>, name |-> <<66, 111, 98>>],
   [lang |-> <<104, 105, 45, 73, 78>>, name |-> <<71, 111, 111, 103, 108, 101>>],
   [lang |-> <<>>, name |-> <<88>>]}
VoiceLists == UNION {[1..n -> VoicePool] : n \in 0..MaxVoices}
\* null: no voice selected, the utterance keeps the system default
NoVoice == [lang |-> <<>>, name |-> <<>>]

VARIABLES
  hasSR,                    \* window.SpeechRecognition || webkitSpeechRecognition
  hasSynth,                 \* window.speechSynthesis
  hasStorage,               \* localStorage can be read and written
  created,                  \* the DOMContentLoaded handler ran to its end
  recognition,              \* Null or the id of the current SpeechRecognition
  sess,                     \* the SpeechRecognition objects
  isListening,
  isBotSpeaking,
  wasListeningBeforeSpeak,
  currentLang,              \* window.currentLang
  storedLang,               \* localStorage "lang"
  messages,                 \* children of #voice-chat-messages
  queue,                    \* speechSynthesis: utterances pending or speaking
  lateEnds,                 \* end events owed to utterances cancelled while speaking
  timers,                   \* pending restart timers
  calls,                    \* sendMessageToAPI calls
  boxOpen,                  \* box.style.display = "flex"
  lastCall,                 \* <<the function called last, how often in a row>>
  alerts,                   \* alert(...) dialogs raised by the handler run last
  voices,                   \* speechSynthesis.getVoices()
  \* the backend (src/unnamed/part_000)
  cbChatContext,            \* the chatbot's in-memory context
  reqs,                     \* /api/cb-chat requests suspended at an await
  pushed,                   \* entries pushed so far (numbers the entries)
  \* the password reset by OTP (src/unnamed/part_000), for one identifier
  otpStore,                 \* otpStore[identifier]
  issued,                   \* OTPs issued so far (the n-th OTP is n)
  vreqs,                    \* /api/verify-otp requests suspended at an await
  resets                    \* successful password resets, per OTP

widgetVars == <<hasSR, hasSynth, hasStorage, created, recognition, sess, isListening, isBotSpeaking,
          wasListeningBeforeSpeak, currentLang, storedLang, messages, queue,
          lateEnds, timers, calls, boxOpen, lastCall,
          alerts, voices>>
backendVars == <<cbChatContext, reqs, pushed>>
otpVars == <<otpStore, issued, vreqs, resets>>
vars == <<widgetVars, backendVars, otpVars>>

\* ------------------------------------------------------------ pure helpers
SeqMin(S) == CHOOSE x \in S : \A y \in S : x <= y
SeqMax(S) == CHOOSE x \in S : \A y \in S : x >= y

\* String.prototype.trim
Trim(t) ==
  LET idx == {k \in 1..Len(t) : t[k] # 32}
  IN IF idx = {} THEN <<>> ELSE SubSeq(t, SeqMin(idx), SeqMax(idx))

\* (mutant) the pattern anchored at the start of the text
KANNADA_REGEX_Anchored(text) ==
  text # <<>> /\ text[1] >= KannadaFirst /\ text[1] <= KannadaLast

\* KANNADA_REGEX.test(text)
KANNADA_REGEX(text) ==
  \E k \in 1..Len(text) : text[k] >= KannadaFirst /\ text[k] <= KannadaLast

detectLangFromText(text) ==
  IF text = <<>> THEN "en"
  ELSE IF KANNADA_REGEX(text) THEN "kn" ELSE "en"

\* /[A-Za-z]/.test(reply)
HasLatin(reply) ==
  \E k \in 1..Len(reply) :
    \/ (reply[k] >= 65 /\ reply[k] <= 90)
    \/ (reply[k] >= 97 /\ reply[k] <= 122)

\* lang === "kn" ? "kn-IN" : "en-IN"
LangTag(lang) == IF lang = "kn" THEN "kn-IN" ELSE "en-IN"

\* ------------------------------------------------------- the widget state
St ==
  [recognition |-> recognition, sess |-> sess, isListening |-> isListening,
   isBotSpeaking |-> isBotSpeaking,
   wasListeningBeforeSpeak |-> wasListeningBeforeSpeak,
   currentLang |-> currentLang, storedLang |-> storedLang,
   messages |-> messages, queue |-> queue, lateEnds |-> lateEnds,
   timers |-> timers, calls |-> calls, boxOpen |-> boxOpen,
   alerts |-> 0]

FreeSess == [lang |-> "", st |-> "free", stopped |-> FALSE, hooked |-> FALSE]
IdleCall ==
  [st |-> "idle", text |-> <<>>, lang |-> "", triedRetry |-> FALSE, posts |-> 0,
   got |-> <<>>, shown |-> <<>>, said |-> <<>>]

\* A SpeechRecognition object nothing refers to and that owes no event is
\* collected; its slot is free again.
Collect(s) ==
  [s EXCEPT !.sess = [i \in SessIds |->
     IF i # s.recognition /\ s.sess[i].st = "idle" THEN FreeSess ELSE s.sess[i]]]

\* The handler's result becomes the state; name says which function the page
\* called directly (window.va.*), "other" for the widget's own handlers.
CommitAs(s, name) ==
  LET t == Collect(s) IN
  /\ lastCall' = IF name = "other" THEN <<"other", 0>>
                 ELSE IF lastCall[1] = name THEN <<name, 2>> ELSE <<name, 1>>
  /\ recognition' = t.recognition
  /\ sess' = t.sess
  /\ isListening' = t.isListening
  /\ isBotSpeaking' = t.isBotSpeaking
  /\ wasListeningBeforeSpeak' = t.wasListeningBeforeSpeak
  /\ currentLang' = t.currentLang
  /\ storedLang' = t.storedLang
  /\ messages' = t.messages
  /\ queue' = t.queue
  /\ lateEnds' = t.lateEnds
  /\ timers' = t.timers
  /\ calls' = t.calls
  /\ boxOpen' = t.boxOpen
  /\ alerts' = t.alerts
  /\ UNCHANGED <<hasSR, hasSynth, hasStorage, created, voices>>
  /\ UNCHANGED <<backendVars, otpVars>>

Commit(s) == CommitAs(s, "other")

\* ------------------------------------------------- language settings
\* window.currentLang || localStorage.getItem("lang") || "en"
getCurrentLang(s) ==
  IF s.currentLang # "" THEN s.currentLang
  ELSE IF s.storedLang # "" THEN s.storedLang ELSE "en"

\* The read of localStorage is not guarded: it throws when the storage is
\* unavailable, and it is reached whenever window.currentLang is unset.
getCurrentLangThrows(s) == s.currentLang = "" /\ ~hasStorage

\* The write is guarded by try/catch: a failing write leaves the storage.
saveLang(s, lang) ==
  IF lang = "" THEN s
  ELSE [s EXCEPT !.currentLang = lang,
                 !.storedLang = IF hasStorage THEN lang ELSE @]

\* ------------------------------------------------- transcript view
addMessage(s, role, text) ==
  [s EXCEPT !.messages = Append(@, [role |-> role, text |-> text])]

\* (mutant) clearChat that resets chatHistory only
clearChatHistoryOnly(s) == s

clearChat(s) == [s EXCEPT !.messages = <<>>]

\* ------------------------------------------------- the platform's recogniser
\* start() throws InvalidStateError on an object that is started and has not
\* yet fired its end event.
CanStart(s, i) == s.sess[i].st = "idle"
SRstart(s, i) == [s EXCEPT !.sess[i].st = "starting"]
\* stop() asks a started session to finish; the end event follows later.
SRstop(s, i) ==
  IF s.sess[i].st \in {"starting", "active"}
  THEN [s EXCEPT !.sess[i].stopped = TRUE]
  ELSE s

FreeIds(s) == {i \in SessIds : s.sess[i].st = "free"}
\* The model can create a SpeechRecognition object only while a slot is free.
CanInit(s) == s.recognition # Null \/ ~hasSR \/ FreeIds(s) # {}

\* ------------------------------------------------- speech recognition
recreateRecognition(s) ==
  IF s.recognition # Null
  THEN LET r == s.recognition
           s1 == [s EXCEPT !.sess[r].hooked = FALSE]   \* onend = onerror = null
       IN [SRstop(s1, r) EXCEPT !.recognition = Null]
  ELSE s

initRecognition(s) ==
  IF ~hasSR THEN [s EXCEPT !.alerts = @ + 1]    \* return alert(...)
  ELSE LET i == SeqMin(FreeIds(s))
       IN [s EXCEPT !.recognition = i,
                    !.sess[i] = [lang |-> LangTag(getCurrentLang(s)),
                                 st |-> "idle", stopped |-> FALSE,
                                 hooked |-> TRUE]]

startListening(s) ==
  LET s1 == IF s.recognition = Null THEN initRecognition(s) ELSE s
      r == s1.recognition
  IN IF r = Null THEN s1     \* null.start() and null.stop() throw; both caught
     ELSE IF CanStart(s1, r) THEN SRstart(s1, r)
     ELSE \* start() threw: stop(), then start() again
          LET s2 == SRstop(s1, r)
          IN IF CanStart(s2, r) THEN SRstart(s2, r) ELSE s2

\* (mutant) stopListening without "isListening = false"
stopListeningKeepsFlag(s) ==
  IF s.recognition # Null THEN SRstop(s, s.recognition) ELSE s

stopListening(s) ==
  LET s1 == IF s.recognition # Null THEN SRstop(s, s.recognition) ELSE s
  IN [s1 EXCEPT !.isListening = FALSE]

toggleListening(s) ==
  LET s1 == IF s.recognition = Null THEN initRecognition(s) ELSE s
  IN IF s1.isListening THEN stopListening(s1) ELSE startListening(s1)

\* ------------------------------------------------- speech synthesis
\* speechSynthesis.cancel(): the queue is emptied.  An utterance cancelled
\* while it was being spoken is owed one more event, which the platform
\* delivers as "end" (endOnCancel) or as "error", for which the widget has no
\* handler.
SynthCancel(s, endOnCancel) ==
  [s EXCEPT !.queue = <<>>,
            !.lateEnds = IF endOnCancel /\ \E k \in 1..Len(s.queue) : s.queue[k].st = "speaking"
                         THEN @ + 1 ELSE @]

\* (mutant) stopSpeaking without synth.cancel()
stopSpeakingFlagOnly(s, endOnCancel) == [s EXCEPT !.isBotSpeaking = FALSE]

stopSpeaking(s, endOnCancel) ==
  LET s1 == IF hasSynth /\ s.queue # <<>>     \* synth.speaking || synth.pending
            THEN SynthCancel(s, endOnCancel) ELSE s
  IN [s1 EXCEPT !.isBotSpeaking = FALSE]

\* String.prototype.toLowerCase (ASCII letters)
ToLower(t) == [k \in 1..Len(t) |-> IF t[k] >= 65 /\ t[k] <= 90 THEN t[k] + 32 ELSE t[k]]

\* String.prototype.includes
Includes(t, sub) ==
  \E k \in 1..(Len(t) - Len(sub) + 1) : SubSeq(t, k, k + Len(sub) - 1) = sub

\* v.lang && v.lang.toLowerCase().includes(lang === 'kn' ? 'kn' : 'en')
LocaleMatches(v, lang) ==
  /\ v.lang # <<>>
  /\ Includes(ToLower(v.lang), IF lang = "kn" THEN <<107, 110>> ELSE <<101, 110>>)

\* femaleHints.some(h => v.name.toLowerCase().includes(h))
HintMatches(v) ==
  \E h \in 1..Len(femaleHints) : Includes(ToLower(v.name), femaleHints[h])

\* Array.prototype.find: the first element the test holds for (hits are the
\* positions it holds at), undefined when there is none
Find(vs, hits) == IF hits # {} THEN vs[SeqMin(hits)] ELSE NoVoice

\* (mutant) the hint-only layer tried before the locale-only layer
selectVoiceHintBeforeLocale(vs, lang) ==
  LET both == {k \in 1..Len(vs) : LocaleMatches(vs[k], lang) /\ HintMatches(vs[k])}
      locale == {k \in 1..Len(vs) : LocaleMatches(vs[k], lang)}
      hint == {k \in 1..Len(vs) : HintMatches(vs[k])}
  IN IF Find(vs, both) # NoVoice THEN Find(vs, both)
     ELSE IF Find(vs, hint) # NoVoice THEN Find(vs, hint)
     ELSE IF Find(vs, locale) # NoVoice THEN Find(vs, locale)
     ELSE IF Len(vs) > 0 THEN vs[1] ELSE NoVoice

selectFemaleVoiceForLang(vs, lang) ==
  LET both == {k \in 1..Len(vs) : LocaleMatches(vs[k], lang) /\ HintMatches(vs[k])}
      locale == {k \in 1..Len(vs) : LocaleMatches(vs[k], lang)}
      hint == {k \in 1..Len(vs) : HintMatches(vs[k])}
  IN IF Find(vs, both) # NoVoice THEN Find(vs, both)
     ELSE IF Find(vs, locale) # NoVoice THEN Find(vs, locale)
     ELSE IF Find(vs, hint) # NoVoice THEN Find(vs, hint)
     ELSE IF Len(vs) > 0 THEN vs[1] ELSE NoVoice

speakOut(s, text, lang, endOnCancel) ==
  LET s1 == stopSpeaking(s, endOnCancel)
  IN IF ~hasSynth THEN s1
     ELSE [s1 EXCEPT !.queue =
             Append(@, [lang |-> LangTag(lang), st |-> "pending",
                        voice |-> selectFemaleVoiceForLang(voices, lang)])]

utterOnStart(s) ==
  LET s1 == [s EXCEPT !.isBotSpeaking = TRUE,
                      !.wasListeningBeforeSpeak = s.isListening]
  IN stopListening(s1)

utterOnEnd(s) ==
  [s EXCEPT !.isBotSpeaking = FALSE,
            !.timers = IF s.wasListeningBeforeSpeak THEN @ + 1 ELSE @,
            !.wasListeningBeforeSpeak = FALSE]

\* ------------------------------------------------- conversation relay
Outcomes ==
  {[kind |-> "ok", reply |-> r] : r \in Replies}
    \cup {[kind |-> "status", reply |-> <<>>], [kind |-> "throw", reply |-> <<>>]}

Awaiting(s) == {c \in CallIds : s.calls[c].st = "await"}
FreeCalls(s) == CallIds \ Awaiting(s)
\* Every call in flight appends at most one more bubble: n more fit beside them.
Room(s, n) == Len(s.messages) + Cardinality(Awaiting(s)) + n <= MaxMessages

\* The synchronous head of sendMessageToAPI: the request is posted.
sendMessageToAPI(s, c, text, lang, triedRetry) ==
  [s EXCEPT !.calls[c].st = "await", !.calls[c].text = text,
            !.calls[c].lang = lang, !.calls[c].triedRetry = triedRetry,
            !.calls[c].posts = @ + 1]

\* (mutant) the retry test without "!triedRetry"
NeedsRetryForgetsTried(lang, reply, triedRetry) ==
  lang = "kn" /\ HasLatin(reply)

\* (mutant) the retry test without the locale
NeedsRetryAnyLocale(lang, reply, triedRetry) ==
  HasLatin(reply) /\ ~triedRetry

\* lang === "kn" && /[A-Za-z]/.test(reply) && !triedRetry
NeedsRetry(lang, reply, triedRetry) ==
  lang = "kn" /\ HasLatin(reply) /\ ~triedRetry

\* data.reply || <the "no answer" placeholder>
replyOf(raw) == IF raw = <<>> THEN NoAnswerText ELSE raw

\* addMessage(role, text) by call c (shown records what the call appended)
callShow(s, c, role, text) ==
  [addMessage(s, role, text) EXCEPT
     !.calls[c].shown = Append(@, [role |-> role, text |-> text])]

\* addMessage("bot", reply); speakOut(reply, lang)
acceptReply(s, c, reply, endOnCancel) ==
  LET s1 == callShow(s, c, "bot", reply)
      s2 == speakOut(s1, reply, s.calls[c].lang, endOnCancel)
  IN [s2 EXCEPT !.calls[c].said = Append(@, [text |-> reply, lang |-> s.calls[c].lang]),
                !.calls[c].st = "done"]

\* (mutant) the non-2xx branch without its "return": the body is read on
onHttpErrorNoReturn(s, c) ==
  acceptReply(callShow(s, c, "bot", ConnErrorText), c, NoAnswerText, FALSE)

\* if (!response.ok) { addMessage(...); return; }
onHttpError(s, c) ==
  [callShow(s, c, "bot", ConnErrorText) EXCEPT !.calls[c].st = "done"]

\* catch (err) { addMessage(...) }
onException(s, c) ==
  [callShow(s, c, "bot", ApiErrorText) EXCEPT !.calls[c].st = "done"]

\* (mutant) the first reply is shown before the retry is issued
onReplyShowsFirst(s, c, raw, endOnCancel) ==
  LET reply == replyOf(raw)
      call == s.calls[c]
      s1 == callShow(s, c, "bot", reply)
  IN IF NeedsRetry(call.lang, reply, call.triedRetry)
     THEN sendMessageToAPI(s1, c, call.text, call.lang, TRUE)
     ELSE acceptReply(s, c, reply, endOnCancel)

onReply(s, c, raw, endOnCancel) ==
  LET reply == replyOf(raw)
      call == s.calls[c]
  IN IF NeedsRetry(call.lang, reply, call.triedRetry)
     THEN sendMessageToAPI(s, c, call.text, call.lang, TRUE)
     ELSE acceptReply(s, c, reply, endOnCancel)

\* The continuation of "await fetch" / "await response.json()".
resumeSend(s, c, out, endOnCancel) ==
  LET s1 == [s EXCEPT !.calls[c].got = Append(@, out)]
  IN CASE out.kind = "status" -> onHttpError(s1, c)
       [] out.kind = "throw" -> onException(s1, c)
       [] OTHER -> onReply(s1, c, out.reply, endOnCancel)

\* (mutant) onresult without saveLang(detected)
onResultKeepsLocale(s, raw, c) ==
  LET transcript == Trim(raw) IN
  IF transcript = <<>> THEN s
  ELSE LET detected == detectLangFromText(transcript)
           s2 == addMessage(s, "user", transcript)
           s3 == [s2 EXCEPT !.calls[c] = IdleCall]
       IN sendMessageToAPI(s3, c, transcript, detected, FALSE)

\* recognition.onresult
onResult(s, raw, c) ==
  LET transcript == Trim(raw) IN
  IF transcript = <<>> THEN s
  ELSE LET detected == detectLangFromText(transcript)
           s1 == saveLang(s, detected)
           s2 == addMessage(s1, "user", transcript)
           s3 == [s2 EXCEPT !.calls[c] = IdleCall]
       IN sendMessageToAPI(s3, c, transcript, detected, FALSE)

\* ------------------------------------------------------------------ Init
WidgetInit ==
  /\ hasSR \in BOOLEAN
  /\ hasSynth \in BOOLEAN
  /\ recognition = Null
  /\ sess = [i \in SessIds |-> FreeSess]
  /\ isListening = FALSE
  /\ isBotSpeaking = FALSE
  /\ wasListeningBeforeSpeak = FALSE
  /\ hasStorage \in BOOLEAN
  \* createVoiceChatBox ends with saveLang(getCurrentLang()); pref is the
  \* preference an earlier visit left in the storage ("": none).
  /\ \E pref \in Locales \cup {""} :
       LET s0 == [currentLang |-> "",
                  storedLang |-> IF hasStorage THEN pref ELSE ""]
       IN IF getCurrentLangThrows(s0)
          THEN created = FALSE /\ currentLang = "" /\ storedLang = ""
          ELSE LET s1 == saveLang(s0, getCurrentLang(s0))
               IN /\ created = TRUE
                  /\ currentLang = s1.currentLang
                  /\ storedLang = s1.storedLang
  /\ messages = <<>>
  /\ queue = <<>>
  /\ lateEnds = 0
  /\ timers = 0
  /\ calls = [c \in CallIds |-> IdleCall]
  /\ boxOpen = FALSE
  /\ lastCall = <<"other", 0>>
  /\ alerts = 0
  /\ voices = <<>>       \* the list is empty until the platform has loaded it

\* ------------------------------------------------------- user's actions
\* voiceAssistantBtn click
OpenBox ==
  /\ created     \* the listener is attached after createVoiceChatBox()
  /\ Commit([St EXCEPT !.boxOpen = TRUE])

\* closeBtn.onclick
CloseBox ==
  /\ boxOpen
  /\ \E e \in BOOLEAN :
       /\ e => lateEnds < MaxLateEnds
       /\ Commit([stopSpeaking(stopListening(St), e) EXCEPT !.boxOpen = FALSE])

\* micBtn.onclick
ToggleMic ==
  /\ boxOpen
  /\ CanInit(St)
  /\ Commit(toggleListening(St))

\* langBadge.onclick
ToggleLang ==
  /\ boxOpen
  /\ LET newLang == IF getCurrentLang(St) = "kn" THEN "en" ELSE "kn"
     IN Commit(recreateRecognition(saveLang(St, newLang)))

\* clearBtn.onclick
ClearChat ==
  /\ boxOpen
  /\ Commit(clearChat(St))

\* ------------------------------------------------- recognition events
RecStart(i) ==
  /\ sess[i].st = "starting"
  /\ Commit([St EXCEPT !.sess[i].st = "active", !.isListening = TRUE])

RecResult(i, raw) ==
  /\ sess[i].st = "active"
  /\ \E c \in CallIds :
       /\ FreeCalls(St) # {} /\ c = SeqMin(FreeCalls(St))
       /\ Trim(raw) # <<>> => Room(St, 2)
       /\ Commit(onResult([St EXCEPT !.sess[i].st = "ending"], raw, c))

RecError(i) ==
  /\ sess[i].st \in {"starting", "active"}
  /\ sess[i].hooked => Room(St, 1)
  /\ LET s1 == [St EXCEPT !.sess[i].st = "failed"]    \* the end event follows
     IN Commit(IF sess[i].hooked THEN addMessage(s1, "bot", RecErrorText) ELSE s1)

RecEnd(i) ==
  /\ \/ sess[i].st \in {"ending", "failed"}
     \/ sess[i].st \in {"starting", "active"} /\ sess[i].stopped
  /\ LET s1 == [St EXCEPT !.sess[i].st = "idle", !.sess[i].stopped = FALSE]
     IN Commit(IF sess[i].hooked THEN [s1 EXCEPT !.isListening = FALSE] ELSE s1)

\* ------------------------------------------------- utterance events
UtterStart ==
  /\ queue # <<>> /\ queue[1].st = "pending"
  /\ Commit(utterOnStart([St EXCEPT !.queue[1].st = "speaking"]))

UtterEnd ==
  /\ queue # <<>> /\ queue[1].st = "speaking"
  /\ wasListeningBeforeSpeak => timers < MaxTimers
  /\ Commit(utterOnEnd([St EXCEPT !.queue = Tail(@)]))

\* the end event of an utterance that was cancelled while being spoken
LateUtterEnd ==
  /\ lateEnds > 0
  /\ wasListeningBeforeSpeak => timers < MaxTimers
  /\ Commit(utterOnEnd([St EXCEPT !.lateEnds = @ - 1]))

\* a synthesis error: the utterance leaves the queue, no handler is attached
UtterError ==
  /\ queue # <<>>
  /\ Commit([St EXCEPT !.queue = Tail(@)])

\* setTimeout(() => startListening(), 200)
TimerFire ==
  /\ timers > 0
  /\ CanInit(St)
  /\ Commit(startListening([St EXCEPT !.timers = @ - 1]))

\* ------------------------------------------------- the backend answers
RelayResume(c, out) ==
  /\ calls[c].st = "await"
  /\ \E e \in BOOLEAN :
       /\ e => lateEnds < MaxLateEnds
       /\ Commit(resumeSend(St, c, out, e))

WidgetNext ==
  \/ OpenBox
  \/ CloseBox
  \/ ToggleMic
  \/ ToggleLang
  \/ ClearChat
  \/ \E i \in SessIds : RecStart(i)
  \/ \E i \in SessIds, raw \in RawTranscripts : RecResult(i, raw)
  \/ \E i \in SessIds : RecError(i)
  \/ \E i \in SessIds : RecEnd(i)
  \/ UtterStart
  \/ UtterEnd
  \/ LateUtterEnd
  \/ UtterError
  \/ TimerFire
  \/ \E c \in CallIds, out \in Outcomes : RelayResume(c, out)

\* The relay on its own: recognition.onresult is run whenever the platform
\* pleases (the recogniser's own state is left out), the backend answers, the
\* answer is spoken, the user clears the transcript.
RecognitionResult(raw) ==
  \E c \in CallIds :
    /\ created
    /\ FreeCalls(St) # {} /\ c = SeqMin(FreeCalls(St))
    /\ Trim(raw) # <<>> => Room(St, 2)
    /\ Commit(onResult(St, raw, c))

RelayNext ==
  \/ OpenBox
  \/ ClearChat
  \/ \E raw \in RawTranscripts : RecognitionResult(raw)
  \/ UtterStart
  \/ UtterEnd
  \/ LateUtterEnd
  \/ UtterError
  \/ \E c \in CallIds, out \in Outcomes : RelayResume(c, out)

\* ------------------------------------------------- the exposed helpers
\* window.va = { startListening, stopListening, speakOut, ... }: the page may
\* call the helpers directly, and stopSpeaking runs at the head of speakOut
\* and at the end of the close handler.
StopListening ==
  CommitAs(stopListening(St), "stopListening")

StopSpeaking ==
  \E e \in BOOLEAN :
    /\ e => lateEnds < MaxLateEnds
    /\ CommitAs(stopSpeaking(St, e), "stopSpeaking")

SpeakOut(text, lang) ==
  \E e \in BOOLEAN :
    /\ e => lateEnds < MaxLateEnds
    /\ Commit(speakOut(St, text, lang, e))

\* The two coordinators without the relay: the mic, the recogniser's events,
\* the utterances' events, and the helpers called directly.
StopNext ==
  \/ OpenBox
  \/ CloseBox
  \/ ToggleMic
  \/ ToggleLang
  \/ \E i \in SessIds : RecStart(i)
  \/ \E i \in SessIds : RecEnd(i)
  \/ \E lang \in Locales : SpeakOut(<<104>>, lang)
  \/ UtterStart
  \/ UtterEnd
  \/ LateUtterEnd
  \/ UtterError
  \/ TimerFire
  \/ StopListening
  \/ StopSpeaking

\* ------------------------------------------------- the chatbot endpoints
ReqIds == 1..MaxReqs
IdleReq == [st |-> "idle", lang |-> ""]
InFlight == {r \in ReqIds : reqs[r].st # "idle"}

BackendInit ==
  /\ cbChatContext = <<>>
  /\ reqs = [r \in ReqIds |-> IdleReq]
  /\ pushed = 0

\* cbChatContext.push({role, content, lang}); the entry's content is its number
Push(ctx, role, lang, n) == Append(ctx, [role |-> role, lang |-> lang, n |-> n])

\* cbChatContext.slice(-10)
LastN(ctx, k) ==
  IF Len(ctx) > k THEN SubSeq(ctx, Len(ctx) - k + 1, Len(ctx)) ELSE ctx

\* Reset the context when the language mode switches, then save the user
\* message; the handler then awaits the model.
ResetAndPushUser(ctx, lang, n) ==
  LET base == IF Len(ctx) > 0 /\ ctx[1].lang # "" /\ ctx[1].lang # lang
              THEN <<>> ELSE ctx
  IN Push(base, "user", lang, n)

\* if (cbChatContext.length > 10) cbChatContext = cbChatContext.slice(-10)
Truncate(ctx) == IF Len(ctx) > CtxCap THEN LastN(ctx, CtxCap) ELSE ctx

\* Every request in flight may push two entries more.
PushRoom == pushed + 2 * (Cardinality(InFlight) + 1) <= MaxPushed + 1

\* POST /api/cb-chat, language "en": up to "await translateToEnglish(...)".
\* (An empty message and a missing API key return before anything is touched.)
CbChatEn(r) ==
  /\ reqs[r].st = "idle" /\ r = SeqMin(ReqIds \ InFlight)
  /\ PushRoom
  /\ reqs' = [reqs EXCEPT ![r] = [st |-> "translating", lang |-> "en"]]
  /\ UNCHANGED <<cbChatContext, pushed>>
  /\ UNCHANGED <<widgetVars, otpVars>>

\* POST /api/cb-chat, language "kn": up to "await ...completions.create(...)".
CbChatKn(r) ==
  /\ reqs[r].st = "idle" /\ r = SeqMin(ReqIds \ InFlight)
  /\ PushRoom
  /\ cbChatContext' = ResetAndPushUser(cbChatContext, "kn", pushed + 1)
  /\ pushed' = pushed + 1
  /\ reqs' = [reqs EXCEPT ![r] = [st |-> "completing", lang |-> "kn"]]
  /\ UNCHANGED <<widgetVars, otpVars>>

\* translateToEnglish returned (the translation, or the text itself on failure)
CbTranslated(r) ==
  /\ reqs[r].st = "translating"
  /\ cbChatContext' = ResetAndPushUser(cbChatContext, reqs[r].lang, pushed + 1)
  /\ pushed' = pushed + 1
  /\ reqs' = [reqs EXCEPT ![r].st = "completing"]
  /\ UNCHANGED <<widgetVars, otpVars>>

\* the model answered with content
CbCompleted(r) ==
  /\ reqs[r].st = "completing"
  /\ cbChatContext' = Truncate(Push(cbChatContext, "assistant", reqs[r].lang, pushed + 1))
  /\ pushed' = pushed + 1
  /\ reqs' = [reqs EXCEPT ![r] = IdleReq]
  /\ UNCHANGED <<widgetVars, otpVars>>

\* the model call threw, or answered without content: 500, nothing else
CbFailed(r) ==
  /\ reqs[r].st = "completing"
  /\ reqs' = [reqs EXCEPT ![r] = IdleReq]
  /\ UNCHANGED <<cbChatContext, pushed>>
  /\ UNCHANGED <<widgetVars, otpVars>>

\* POST /api/cb-clear
CbClear ==
  /\ cbChatContext' = <<>>
  /\ UNCHANGED <<reqs, pushed>>
  /\ UNCHANGED <<widgetVars, otpVars>>

BackendNext ==
  \/ \E r \in ReqIds : CbChatEn(r)
  \/ \E r \in ReqIds : CbChatKn(r)
  \/ \E r \in ReqIds : CbTranslated(r)
  \/ \E r \in ReqIds : CbCompleted(r)
  \/ \E r \in ReqIds : CbFailed(r)
  \/ CbClear

\* ------------------------------------------------- password reset by OTP
OtpIds == 1..MaxOtps
VerifyIds == 1..MaxVerifies
\* otpStore[identifier] is undefined
NoOtp == [otp |-> 0, expired |-> FALSE]
IdleVerify == [st |-> "idle", otp |-> 0]

OtpInit ==
  /\ otpStore = NoOtp
  /\ issued = 0
  /\ vreqs = [r \in VerifyIds |-> IdleVerify]
  /\ resets = [o \in OtpIds |-> 0]

\* POST /api/forgot-password for a known user: a fresh OTP replaces the stored
\* one (it stays stored whether or not the mail or SMS goes out).
ForgotPassword ==
  /\ issued < MaxOtps
  /\ issued' = issued + 1
  /\ otpStore' = [otp |-> issued + 1, expired |-> FALSE]
  /\ UNCHANGED <<vreqs, resets>>
  /\ UNCHANGED <<widgetVars, backendVars>>

\* Ten minutes have passed: record.expiresAt < Date.now()
OtpExpires ==
  /\ otpStore # NoOtp /\ ~otpStore.expired
  /\ otpStore' = [otpStore EXCEPT !.expired = TRUE]
  /\ UNCHANGED <<issued, vreqs, resets>>
  /\ UNCHANGED <<widgetVars, backendVars>>

\* !record || record.otp !== otp -> 400; record.expiresAt < Date.now() -> 400
OtpAccepted(record, otp) ==
  record # NoOtp /\ record.otp = otp /\ ~record.expired

\* POST /api/verify-otp with the OTP otp, up to "await bcrypt.hash(...)"; a
\* rejected request answers 400 and touches nothing.
VerifyOtp(r, otp) ==
  /\ vreqs[r].st = "idle"
  /\ vreqs' = IF OtpAccepted(otpStore, otp)
              THEN [vreqs EXCEPT ![r] = [st |-> "hashing", otp |-> otp]]
              ELSE vreqs
  /\ UNCHANGED <<otpStore, issued, resets>>
  /\ UNCHANGED <<widgetVars, backendVars>>

\* The hash and the UPDATE returned: the password is reset, then
\* delete otpStore[identifier].
VerifyDone(r) ==
  /\ vreqs[r].st = "hashing"
  /\ resets' = [resets EXCEPT ![vreqs[r].otp] = @ + 1]
  /\ otpStore' = NoOtp
  /\ vreqs' = [vreqs EXCEPT ![r] = IdleVerify]
  /\ UNCHANGED issued
  /\ UNCHANGED <<widgetVars, backendVars>>

\* The hash or the UPDATE threw: 500, the OTP stays stored.
VerifyFailed(r) ==
  /\ vreqs[r].st = "hashing"
  /\ vreqs' = [vreqs EXCEPT ![r] = IdleVerify]
  /\ UNCHANGED <<otpStore, issued, resets>>
  /\ UNCHANGED <<widgetVars, backendVars>>

OtpNext ==
  \/ ForgotPassword
  \/ OtpExpires
  \/ \E r \in VerifyIds, otp \in OtpIds : VerifyOtp(r, otp)
  \/ \E r \in VerifyIds : VerifyDone(r)
  \/ \E r \in VerifyIds : VerifyFailed(r)

\* ------------------------------------------------------- specifications
Init == WidgetInit /\ BackendInit /\ OtpInit

\* The widget.  Its relay posts to /api/chat, which keeps no state, so the
\* backend is to the widget the source of the outcomes of RelayResume.
Next == WidgetNext

Spec == Init /\ [][Next]_vars

\* A send and what follows from it.
RelaySpec == Init /\ [][RelayNext]_vars

\* Listening and speaking, with the helpers called directly.
StopSpec == Init /\ [][StopNext]_vars

\* The two stores a clear can reach, side by side: the widget's transcript
\* view (filled by results, emptied by the clear button) and the chatbot's
\* context (filled by /api/cb-chat, emptied by /api/cb-clear).
ClearNext ==
  \/ OpenBox
  \/ \E raw \in RawTranscripts : RecognitionResult(raw)
  \/ ClearChat
  \/ \E r \in ReqIds : CbChatKn(r)
  \/ \E r \in ReqIds : CbCompleted(r)
  \/ CbClear

ClearSpec == Init /\ [][ClearNext]_vars

\* The platform has loaded, or changed, its list of voices.
VoicesChanged(list) ==
  /\ voices' = list
  /\ UNCHANGED <<hasSR, hasSynth, hasStorage, created, recognition, sess,
                 isListening, isBotSpeaking, wasListeningBeforeSpeak,
                 currentLang, storedLang, messages, queue, lateEnds, timers,
                 calls, boxOpen, lastCall, alerts>>
  /\ UNCHANGED <<backendVars, otpVars>>

\* Voice selection on its own: the voices come and go, the page speaks.
VoiceNext ==
  \/ \E list \in VoiceLists : VoicesChanged(list)
  \/ \E lang \in Locales : SpeakOut(<<104>>, lang)

VoiceSpec == Init /\ [][VoiceNext]_vars

\* The language detector at work: onresult with any text of Texts.
DetectNext ==
  \/ OpenBox
  \/ \E raw \in Texts : RecognitionResult(raw)

DetectSpec == Init /\ [][DetectNext]_vars

\* The password reset by OTP (the same Express process).
OtpSpec == Init /\ [][OtpNext]_vars

\* The chatbot endpoints, a program of their own (the Express process).
BackendSpec == Init /\ [][BackendNext]_vars

\* =================================================================
\* The claims
\* =================================================================

Speaking == queue # <<>> /\ queue[1].st = "speaking"

\* C1: in every reachable state of the widget isListening and isBotSpeaking
\* are never both true.  (Violated: nothing keeps recognition.onstart from
\* running while the bot speaks.)
C1_ListeningSpeakingExclusive == ~(isListening /\ isBotSpeaking)

\* C2: when playback starts while listening is active, isListening is false
\* right after the playback-start event and stays false until that playback
\* has ended: while the utterance that suspended listening is being spoken
\* (wasListeningBeforeSpeak is its record), isListening is false.  The restart
\* itself is scheduled only in utter.onend.  (Violated: a mic toggle, or an
\* earlier restart timer, starts recognition during the playback.)
C2_ListeningOffDuringPlayback ==
  (Speaking /\ wasListeningBeforeSpeak) => ~isListening

\* C3: right after the close handler has run, isListening, isBotSpeaking and
\* wasListeningBeforeSpeak are all false.  (Violated: close does not reset
\* wasListeningBeforeSpeak.)
C3_CloseResetsSession ==
  [][(boxOpen /\ ~boxOpen')
       => (~isListening' /\ ~isBotSpeaking' /\ ~wasListeningBeforeSpeak')]_vars

\* A platform event of session i: its state moves on.
SessionEvent(i) ==
  /\ sess[i].st \in {"starting", "active", "ending", "failed"}
  /\ sess'[i].st # sess[i].st

\* C4: every event of a recognition session that the locale toggle has
\* invalidated (its onend and onerror were detached) changes no session flag,
\* no locale, appends nothing to the transcript and posts no request.
\* (Violated: onstart and onresult stay attached.)
C4_LateEventsIgnored ==
  [][\A i \in SessIds :
       (~sess[i].hooked /\ SessionEvent(i))
         => UNCHANGED <<isListening, isBotSpeaking, wasListeningBeforeSpeak,
                        currentLang, storedLang, messages, calls>>]_vars

\* C5: every recognition session that is started is bound to the locale that
\* is current at the moment of the start.  (Violated: language detection on a
\* transcript changes the locale and the session object is kept.)
C5_StartBoundToCurrentLocale ==
  [][\A i \in SessIds :
       (sess[i].st # "starting" /\ sess'[i].st = "starting")
         => sess'[i].lang = LangTag(currentLang')]_vars

\* The call's first answer was a success whose reply holds a Latin letter.
FirstReplyLatin(c) ==
  /\ Len(calls[c].got) >= 1
  /\ calls[c].got[1].kind = "ok"
  /\ HasLatin(replyOf(calls[c].got[1].reply))

BotEntry(text) == [role |-> "bot", text |-> text]

\* C6: for a send with locale "kn" whose first successful reply contains a
\* Latin letter, exactly one retry request is issued (two requests in all),
\* nothing is appended or spoken for the first reply, and what the call
\* appends is one entry for the second answer: the second reply, spoken once
\* with locale "kn", or the error bubble when the retry fails.
C6_RetryOnceSecondReplyOnly ==
  \A c \in CallIds :
    (calls[c].lang = "kn" /\ FirstReplyLatin(c)) =>
      LET call == calls[c] IN
      /\ call.posts = 2
      /\ Len(call.got) <= 2
      /\ Len(call.got) = 1 =>
           call.st = "await" /\ call.shown = <<>> /\ call.said = <<>>
      /\ Len(call.got) = 2 =>
           /\ call.st = "done"
           /\ Len(call.shown) = 1
           /\ call.got[2].kind = "ok" =>
                /\ call.shown = <<BotEntry(replyOf(call.got[2].reply))>>
                /\ call.said = <<[text |-> replyOf(call.got[2].reply), lang |-> "kn"]>>
           /\ call.got[2].kind # "ok" => call.said = <<>>

C6_Witness ==
  \E c \in CallIds :
    /\ calls[c].lang = "kn" /\ FirstReplyLatin(c)
    /\ Len(calls[c].got) = 2 /\ calls[c].got[2].kind = "ok"
    /\ calls[c].st = "done"

\* C7: whatever the backend answers, a call posts at most two requests, and it
\* has ended once every request it posted is answered: an answer either ends
\* the call or is followed by the one retry.
C7_AtMostTwoRequests ==
  \A c \in CallIds :
    LET call == calls[c] IN
    /\ call.posts <= 2
    /\ call.st = "await" => Len(call.got) = call.posts - 1
    /\ call.st = "done" => Len(call.got) = call.posts
    /\ call.st = "idle" => call.posts = 0

C7_Witness ==
  \E c \in CallIds : calls[c].st = "done" /\ calls[c].posts = 2

\* C8: for a send with locale "en" no retry is issued, whatever the reply
\* holds: exactly one request is posted.
C8_NoRetryForPrimary ==
  \A c \in CallIds :
    calls[c].lang = "en" =>
      /\ calls[c].posts = 1
      /\ ~calls[c].triedRetry
      /\ calls[c].st = "done" => Len(calls[c].got) = 1

C8_Witness ==
  \E c \in CallIds :
    /\ calls[c].lang = "en" /\ calls[c].st = "done"
    /\ FirstReplyLatin(c)

\* C9: when a request is answered with a non-success status, that answer ends
\* the call: no request follows it, the call appends exactly one entry, the
\* bot-role connectivity error, and speakOut is never invoked for the send.
C9_HttpErrorOneBubbleNoSpeech ==
  \A c \in CallIds :
    \A k \in 1..Len(calls[c].got) :
      calls[c].got[k].kind = "status" =>
        /\ k = Len(calls[c].got)
        /\ calls[c].st = "done"
        /\ calls[c].posts = k
        /\ calls[c].shown = <<BotEntry(ConnErrorText)>>
        /\ calls[c].said = <<>>

C9_Witness ==
  \E c \in CallIds :
    /\ calls[c].st = "done"
    /\ Len(calls[c].got) = 2
    /\ calls[c].got[2].kind = "status"

\* C10: once every request has been answered, the chatbot context holds at
\* most 10 entries, and they are the most recently pushed ones in order.
\* (Violated: the user entry is pushed before the model call and the context
\* is trimmed only after a successful one.)
C10_ContextCapped ==
  InFlight = {} =>
    /\ Len(cbChatContext) <= CtxCap
    /\ \A k \in 1..Len(cbChatContext) :
         cbChatContext[k].n = pushed - (Len(cbChatContext) - k)

\* C11: once a recognition error and the end event that follows it have been
\* handled, isListening is false, whatever the state the error arrived in.
\* (Violated: for a session the locale toggle invalidated while listening,
\* onerror and onend are detached and nothing else resets isListening; no
\* bubble is appended for it either.)
C11_ErrorReturnsToIdle ==
  [][\A i \in SessIds :
       (sess[i].st = "failed" /\ sess'[i].st # "failed") => ~isListening']_vars

programVars ==
  <<recognition, sess, isListening, isBotSpeaking, wasListeningBeforeSpeak,
    currentLang, storedLang, messages, queue, lateEnds, timers, calls, boxOpen>>

\* C12: stopListening leaves isListening false and stopSpeaking leaves
\* isBotSpeaking false, after a first call and after a second call in
\* succession, and the second call changes no state.  (Neither can raise: the
\* one guards stop() with try/catch, the other tests synth before using it.)
C12_StopTwiceIdempotent ==
  [][/\ (lastCall'[1] = "stopListening" /\ lastCall' # lastCall) => ~isListening'
     /\ (lastCall'[1] = "stopSpeaking" /\ lastCall' # lastCall) => ~isBotSpeaking'
     /\ (lastCall[2] = 1 /\ lastCall'[2] = 2) => UNCHANGED programVars]_vars

\* stopListening was called twice in a row and had a started session to stop.
C12_Witness ==
  /\ lastCall = <<"stopListening", 2>>
  /\ \E i \in SessIds : sess[i].stopped /\ i = recognition

\* C13: without the recognition capability a handler that tries to start
\* listening alerts once and starts no session; without the synthesis
\* capability no utterance is ever queued.  (Violated: toggleListening calls
\* initRecognition and then startListening, which calls it again: two alerts
\* for one mic toggle.)
C13_MissingCapability ==
  /\ alerts <= 1
  /\ ~hasSR => recognition = Null /\ \A i \in SessIds : sess[i].st = "free"
  /\ ~hasSynth => queue = <<>> /\ ~isBotSpeaking

UserEntry(text) == [role |-> "user", text |-> text]

\* A result with a blank transcript leaves the widget as it found it.
BlankResultIgnored ==
  \A raw \in RawTranscripts, c \in CallIds :
    Trim(raw) = <<>> => onResult(St, raw, c) = St

\* The step of recognition.onresult that takes a transcript, and the step
\* that accepts a reply.
ResultThenReply ==
  \A c \in CallIds :
    LET old == calls[c]
        new == calls'[c]
    IN /\ (old.st # "await" /\ new.st = "await") =>
            LET detected == detectLangFromText(new.text) IN
            /\ new.text # <<>>
            /\ currentLang' = detected /\ storedLang' = detected
            /\ messages' = Append(messages, UserEntry(new.text))
            /\ new.lang = detected /\ new.posts = 1 /\ ~new.triedRetry
            /\ new.shown = <<>> /\ new.said = <<>>
       /\ (old.st = "await" /\ new.st = "done"
            /\ new.got[Len(new.got)].kind = "ok") =>
            LET reply == replyOf(new.got[Len(new.got)].reply) IN
            /\ messages' = Append(messages, BotEntry(reply))
            /\ new.shown = <<BotEntry(reply)>>
            /\ new.said = <<[text |-> reply, lang |-> old.lang]>>
            /\ hasSynth =>
                 /\ Len(queue') = 1
                 /\ queue'[1].lang = LangTag(old.lang) /\ queue'[1].st = "pending"

\* C14: a result with a transcript stores the detected locale, appends the
\* user entry and posts the request with the detected locale, in that one
\* handler; the accepted reply is appended as one assistant entry, after the
\* user entry, and speakOut is invoked once with that reply and that locale.
\* A blank transcript appends nothing and posts nothing.
C14_ResultOrder == []BlankResultIgnored /\ [][ResultThenReply]_vars

C14_Witness ==
  \E c \in CallIds :
    /\ calls[c].st = "done" /\ Len(calls[c].said) = 1
    /\ messages = <<UserEntry(calls[c].text), BotEntry(calls[c].said[1].text)>>

\* clearChat empties the view and touches nothing else of the widget.
ClearChatResets ==
  LET t == clearChat(St)
  IN t.messages = <<>> /\ [t EXCEPT !.messages = messages] = St

\* A step that empties one store leaves the other as it was.
ClearFrame ==
  /\ (messages # <<>> /\ messages' = <<>>) => UNCHANGED backendVars
  /\ (cbChatContext # <<>> /\ cbChatContext' = <<>>) =>
       UNCHANGED <<programVars, reqs, pushed>>

\* C15: clearing the conversation empties the transcript view, /api/cb-clear
\* empties the chatbot's context, and each leaves the other store unchanged.
C15_ClearsIndependent == []ClearChatResets /\ [][ClearFrame]_vars

\* The view was cleared after a result while the backend holds a context.
C15_Witness ==
  /\ messages = <<>> /\ \E c \in CallIds : calls[c].st = "await"
  /\ cbChatContext # <<>>

\* The text holds a code point of U+0C80..U+0CFF.
HasKannada(t) == \E k \in 1..Len(t) : t[k] >= 3200 /\ t[k] <= 3327

Expected(t) == IF HasKannada(t) THEN "kn" ELSE "en"

\* C16: detectLangFromText gives "kn" for every text with a code point of the
\* Kannada block and "en" for every other text, the empty one included (an
\* absent text takes the same "!text" branch as the empty one); onresult
\* stores and posts what it gives.
C16_DetectKannada ==
  /\ [](\A t \in Texts : detectLangFromText(t) = Expected(t))
  /\ [][\A c \in CallIds :
         (calls[c].st # "await" /\ calls'[c].st = "await") =>
           /\ calls'[c].lang = Expected(calls'[c].text)
           /\ currentLang' = Expected(calls'[c].text)]_vars

\* A transcript that starts with a Latin letter and holds a Kannada one.
C16_Witness ==
  \E c \in CallIds :
    /\ calls[c].st = "await" /\ calls[c].lang = "kn"
    /\ Len(calls[c].text) = 2 /\ calls[c].text[1] = 104

\* C17: with the storage unavailable, reading and saving the locale do not
\* fail and the locale is kept in memory: the widget gets built, holds a
\* locale, and the storage holds none.  (Violated: the first getCurrentLang,
\* at the end of createVoiceChatBox, reads localStorage unguarded and throws.)
C17_StorageUnavailable ==
  ~hasStorage => created /\ currentLang \in Locales /\ storedLang = ""

\* The layered preference, stated over the positions in the list.
Preferred(vs, lang) ==
  LET L == {k \in 1..Len(vs) : LocaleMatches(vs[k], lang)}
      H == {k \in 1..Len(vs) : HintMatches(vs[k])}
  IN IF L \cap H # {} THEN vs[SeqMin(L \cap H)]
     ELSE IF L # {} THEN vs[SeqMin(L)]
     ELSE IF H # {} THEN vs[SeqMin(H)]
     ELSE IF vs # <<>> THEN vs[1]
     ELSE NoVoice

\* C18: for every list of voices the platform offers (every value of voices
\* in VoiceSpec) and every locale, the voice selected is the
\* first with matching locale and hinted name, else the first with matching
\* locale, else the first with a hinted name, else the first, else none; and
\* the utterance speakOut queues carries the voice so selected.  (A locale
\* matches as the code tests it: the voice's lang, lower-cased, contains "kn",
\* or "en" for every other locale.)
C18_VoiceLayers ==
  /\ [](\A lang \in Locales :
          selectFemaleVoiceForLang(voices, lang) = Preferred(voices, lang))
  /\ [][(queue' # queue /\ queue' # <<>> /\ queue'[1].st = "pending") =>
          \E lang \in Locales :
            /\ queue'[1].lang = LangTag(lang)
            /\ queue'[1].voice = Preferred(voices, lang)]_vars

\* An utterance queued with a locale-only voice that is not the first listed,
\* the first being a hinted voice of another locale.
C18_Witness ==
  /\ Len(voices) = 2 /\ queue # <<>>
  /\ HintMatches(voices[1]) /\ ~LocaleMatches(voices[1], "kn")
  /\ queue[1].lang = "kn-IN" /\ queue[1].voice = voices[2]
  /\ ~HintMatches(voices[2])

\* C19: at most one utterance is being spoken or pending at any time:
\* speakOut cancels what is queued before it queues the new utterance.
C19_AtMostOneUtterance == Len(queue) <= 1

\* An utterance is pending while the one it replaced, cancelled while it was
\* being spoken, still owes its end event.
C19_Witness ==
  Len(queue) = 1 /\ queue[1].st = "pending" /\ lateEnds > 0

\* C20: while the widget is closed no recognition session is started.
\* (Violated: the close handler neither clears a pending restart timer nor
\* resets wasListeningBeforeSpeak, so the timer, or the end event of the
\* utterance the close cancels, starts listening after the close.)
C20_NoResumeAfterClose ==
  [][~boxOpen =>
       \A i \in SessIds :
         ~(sess[i].st # "starting" /\ sess'[i].st = "starting")]_vars

\* No event is pending: no session owes a start, result or end event, no
\* utterance is queued or owes its end, no timer is set, no request is out.
Quiet ==
  /\ \A i \in SessIds :
       \/ sess[i].st \in {"free", "idle"}
       \/ sess[i].st = "active" /\ ~sess[i].stopped
  /\ queue = <<>> /\ lateEnds = 0 /\ timers = 0
  /\ \A c \in CallIds : calls[c].st # "await"

\* C21: whenever no event is pending, isListening true means the current
\* recognition session is active.  (Violated: a locale toggle while listening
\* detaches onend and drops the session without resetting isListening.)
C21_FlagAgreesWithSession ==
  (Quiet /\ isListening) =>
    recognition # Null /\ sess[recognition].st = "active"

\* C22: all entries of the chatbot context carry the same language tag.
\* (Violated: a request awaiting the model pushes its assistant entry, tagged
\* with its own language, into the context a request of the other language
\* has reset meanwhile.)
C22_ContextOneLanguage ==
  \A j, k \in 1..Len(cbChatContext) :
    cbChatContext[j].lang = cbChatContext[k].lang

\* C23: an issued OTP authorises at most one successful password reset.
\* (Violated: the OTP is checked before the awaited hash and UPDATE and
\* deleted only after them, so two overlapping requests both pass the check.)
C23_OtpSingleUse == \A o \in OtpIds : resets[o] <= 1
====
